---- MODULE Spec2Model ----
(***************************************************************************)
(* start.py of sast-compose: Worker runs five SAST scanner containers one  *)
(* after another through the docker CLI and merges their JSON reports.     *)
(* Every subprocess.run and every file access of the script is one step.   *)
(***************************************************************************)
EXTENDS Integers, Sequences, FiniteSets, TLC

VARIABLES username, password, cwd, fs, output_file, pc, i, calls, cause,
          json_files, j, merged_data, exc, exit_code, writes

vars == <<username, password, cwd, fs, output_file, pc, i, calls, cause,
          json_files, j, merged_data, exc, exit_code, writes>>

----------------------------------------------------------------------------
(* Bounds of the inputs.                                                   *)

\* distinct findings a report may hold
MaxElems == 2
\* longest JSON array a report file may hold
MaxLen == 1
\* most report files handed to merge_json_files when it is checked alone
MaxRecorded == 2

----------------------------------------------------------------------------
(* The scanner table of run_scanners, in dict (declaration) order.         *)

ScannerNames == <<"semgrep", "horusec", "infer", "insider", "gitleaks">>

NumScanners == Len(ScannerNames)

Image(name) ==
    CASE name = "semgrep"  -> "returntocorp/semgrep"
      [] name = "horusec"  -> "horussecurity/horusec"
      [] name = "infer"    -> "facebook/infer"
      [] name = "insider"  -> "insider/insider"
      [] name = "gitleaks" -> "zricethezav/gitleaks"

\* f"{name}_output.json", the name run_scanners records
OutputName(name) == name \o "_output.json"

\* the file inside the mounted input directory (/src) a scanner's command writes
ReportName(name) ==
    CASE name = "semgrep"  -> "semgrep_output.json"
      [] name = "horusec"  -> "horusec_output.json"
      [] name = "infer"    -> "infer_output.json"
      [] name = "insider"  -> "insider_output.json"
      [] name = "gitleaks" -> "gitleaks_output.json"

FileNames == {ReportName(ScannerNames[k]) : k \in 1..NumScanners}

\* the host directories: the one given by -i and mounted at /src, and any other
Dirs == {"input_dir", "elsewhere"}

----------------------------------------------------------------------------
(* JSON documents (what a file holds) and Python values (what json.load    *)
(* returns).  val is always a sequence; a string is its characters.        *)

Missing   == [kind |-> "missing", val |-> <<>>]
Malformed == [kind |-> "malformed", val |-> <<>>]
JNumber(n)  == [kind |-> "number", val |-> <<n>>]
JString(cs) == [kind |-> "string", val |-> cs]
JTrue       == [kind |-> "true", val |-> <<>>]
JNull       == [kind |-> "null", val |-> <<>>]
JArray(xs)  == [kind |-> "array", val |-> xs]
\* members is a sequence of <<key characters, JSON value>>, in document order
JObject(members) == [kind |-> "object", val |-> members]

PyInt(n)   == [kind |-> "int", val |-> <<n>>]
PyStr(cs)  == [kind |-> "str", val |-> cs]
PyTrue     == [kind |-> "bool", val |-> <<>>]
PyNone     == [kind |-> "NoneType", val |-> <<>>]
PyList(xs) == [kind |-> "list", val |-> xs]
\* a dict keeps its keys in insertion order: a sequence of <<key, value>>
PyDict(entries) == [kind |-> "dict", val |-> entries]

\* d[key] = value on an insertion-ordered dict
DictSet(entries, key, value) ==
    IF \E n \in DOMAIN entries : entries[n][1] = key
    THEN [n \in DOMAIN entries |->
            IF entries[n][1] = key THEN <<key, value>> ELSE entries[n]]
    ELSE Append(entries, <<key, value>>)

RECURSIVE JsonLoad(_)
RECURSIVE LoadMembers(_, _)
RECURSIVE LoadItems(_)

LoadItems(xs) ==
    IF xs = <<>> THEN <<>> ELSE <<JsonLoad(Head(xs))>> \o LoadItems(Tail(xs))

LoadMembers(members, entries) ==
    IF members = <<>> THEN entries
    ELSE LoadMembers(Tail(members),
                     DictSet(entries, Head(members)[1], JsonLoad(Head(members)[2])))

\* json.load on a well-formed document
JsonLoad(doc) ==
    CASE doc.kind = "number" -> PyInt(doc.val[1])
      [] doc.kind = "string" -> PyStr(doc.val)
      [] doc.kind = "true"   -> PyTrue
      [] doc.kind = "null"   -> PyNone
      [] doc.kind = "array"  -> PyList(LoadItems(doc.val))
      [] doc.kind = "object" -> PyDict(LoadMembers(doc.val, <<>>))

RECURSIVE JsonDump(_)
RECURSIVE DumpItems(_)
RECURSIVE DumpEntries(_)

DumpItems(xs) ==
    IF xs = <<>> THEN <<>> ELSE <<JsonDump(Head(xs))>> \o DumpItems(Tail(xs))

DumpEntries(entries) ==
    IF entries = <<>> THEN <<>>
    ELSE <<<<Head(entries)[1], JsonDump(Head(entries)[2])>>>> \o DumpEntries(Tail(entries))

\* json.dump: the document written for a Python value
JsonDump(value) ==
    CASE value.kind = "int"      -> JNumber(value.val[1])
      [] value.kind = "str"      -> JString(value.val)
      [] value.kind = "bool"     -> JTrue
      [] value.kind = "NoneType" -> JNull
      [] value.kind = "list"     -> JArray(DumpItems(value.val))
      [] value.kind = "dict"     -> JObject(DumpEntries(value.val))

\* whether list.extend accepts the value (it iterates it)
Iterable(value) == value.kind \in {"list", "dict", "str"}

\* variant: a dict yields its values
IterateValues(value) ==
    CASE value.kind = "list" -> value.val
      [] value.kind = "dict" -> [n \in DOMAIN value.val |-> value.val[n][2]]
      [] value.kind = "str"  -> [n \in DOMAIN value.val |-> PyStr(<<value.val[n]>>)]

\* what iterating a value yields: a list's items, a dict's keys, a str's characters
Iterate(value) ==
    CASE value.kind = "list" -> value.val
      [] value.kind = "dict" -> [n \in DOMAIN value.val |-> PyStr(value.val[n][1])]
      [] value.kind = "str"  -> [n \in DOMAIN value.val |-> PyStr(<<value.val[n]>>)]

\* variant: merged_data.append(data)
ExtendAppend(merged, data) == Append(merged, data)

\* merged_data.extend(data)
Extend(merged, data) == merged \o Iterate(data)

----------------------------------------------------------------------------
(* Python helpers.                                                         *)

\* an optional str: <<>> is None, <<s>> is the string s
None == <<>>

\* variant: "x is not None", which lets an empty string through
TruthyNotNone(x) == x # None

\* bool(x) for an optional str
Truthy(x) == x # None /\ x[1] # ""

\* "self.username and self.password" (docker_login) and
\* "args.username and args.password" (main)
HasCredentials == Truthy(username) /\ Truthy(password)

\* subprocess.run(..., check=True) seen from the caller: it returns, raises
\* CalledProcessError (non-zero exit) or raises FileNotFoundError (no docker
\* executable).  reason is why the environment answered as it did.
SubprocessRun(reason) ==
    CASE reason = "success"   -> "returned"
      [] reason = "no_engine" -> "FileNotFoundError"
      [] OTHER                -> "CalledProcessError"

\* the exit status the docker command ended with ("none": no process ran)
ExitStatus(reason) ==
    CASE reason = "success"   -> "zero"
      [] reason = "no_engine" -> "none"
      [] OTHER                -> "nonzero"

Call(op, image, reason) == [op |-> op, image |-> image, status |-> ExitStatus(reason)]

\* where control goes next
Goto(label)    == [pc |-> label, exc |-> "", exit_code |-> -1]
\* an exception nobody catches: traceback, exit status 1
Raise(e)       == [pc |-> "crashed", exc |-> e, exit_code |-> 1]
\* sys.exit(code)
SysExit(code)  == [pc |-> "exited", exc |-> "SystemExit", exit_code |-> code]

\* why docker image inspect / the other docker commands may end as they do
InspectReasons == {"success", "absent", "malformed", "no_engine"}
CommandReasons == {"success", "failure", "no_engine"}

----------------------------------------------------------------------------
(* The methods of Worker, as functions of what subprocess.run did.         *)

\* variant: "except Exception", which also swallows a missing docker executable
check_image_catch_all(result) ==
    IF result = "returned" THEN "True" ELSE "False"

\* check_image: True, False, or the exception that escapes it
check_image(result) ==
    CASE result = "returned"           -> "True"
      [] result = "CalledProcessError" -> "False"
      [] OTHER                         -> result

\* variant: no try/except around the pull
pull_image_unguarded(result) ==
    IF result = "returned" THEN "None" ELSE result

\* pull_image: "None" when it returns, or the exception that escapes it
pull_image(result) ==
    CASE result = "returned"           -> "None"
      [] result = "CalledProcessError" -> "None"
      [] OTHER                         -> result

\* variant: the failure is logged but sys.exit(1) is left out
docker_login_no_exit(result) ==
    CASE result = "returned"           -> Goto("check_image")
      [] result = "CalledProcessError" -> Goto("check_image")
      [] OTHER                         -> Raise(result)

\* docker_login after its subprocess.run: where the process goes
docker_login(result) ==
    CASE result = "returned"           -> Goto("check_image")
      [] result = "CalledProcessError" -> SysExit(1)
      [] OTHER                         -> Raise(result)

\* variant: "if self.check_image(image)", the "not" dropped
AfterCheckInverted(checked) ==
    CASE checked = "True"  -> Goto("pull_image")
      [] checked = "False" -> Goto("run")
      [] OTHER             -> Raise(checked)

\* run_scanners: "if not self.check_image(image): self.pull_image(image)"
AfterCheck(checked) ==
    CASE checked = "True"  -> Goto("run")
      [] checked = "False" -> Goto("pull_image")
      [] OTHER             -> Raise(checked)

\* run_scanners: after pull_image the loop body goes on to the container run
AfterPull(pulled) ==
    IF pulled = "None" THEN Goto("run") ELSE Raise(pulled)

\* variant: the append placed after the try/except, so it happens either way
RecordedAlways(files, name, result) == Append(files, OutputName(name))

\* run_scanners: the try/except around the container run; the filename is
\* appended only when subprocess.run returned
Recorded(files, name, result) ==
    IF result = "returned" THEN Append(files, OutputName(name)) ELSE files

\* run_scanners: the end of one loop iteration
AfterRun(k, result) ==
    CASE result \notin {"returned", "CalledProcessError"} -> Raise(result)
      [] k < NumScanners -> Goto("check_image")
      [] OTHER           -> Goto("merge")

\* an object {"r": n} standing for one finding
Finding(n) == JObject(<< << <<"r">>, JNumber(n) >> >>)

\* what scanner k leaves in /src when its container exits zero
Report(k) == JArray(<<Finding(k)>>)

\* variant: a file that is missing or does not parse is skipped
MergeStepSkipping(merged, doc) ==
    CASE doc.kind \in {"missing", "malformed"} -> [exc |-> "", merged |-> merged]
      [] OTHER ->
            IF Iterable(JsonLoad(doc))
            THEN [exc |-> "", merged |-> Extend(merged, JsonLoad(doc))]
            ELSE [exc |-> "TypeError", merged |-> merged]

\* merge_json_files, one loop iteration on the document found at the path:
\* open() raises on a missing file, json.load on malformed text, extend on a
\* value that cannot be iterated
MergeStep(merged, doc) ==
    CASE doc.kind = "missing"   -> [exc |-> "FileNotFoundError", merged |-> merged]
      [] doc.kind = "malformed" -> [exc |-> "JSONDecodeError", merged |-> merged]
      [] OTHER ->
            IF Iterable(JsonLoad(doc))
            THEN [exc |-> "", merged |-> Extend(merged, JsonLoad(doc))]
            ELSE [exc |-> "TypeError", merged |-> merged]

\* open(json_file): a relative name resolves against the working directory
OpenPath(name) == <<cwd, name>>

\* the host path of /src/<name> inside a container started with -v input_dir:/src
MountedPath(name) == <<"input_dir", name>>

ReadFile(path) == fs[path[1]][path[2]]

WriteFile(path, doc) == [fs EXCEPT ![path[1]][path[2]] = doc]

----------------------------------------------------------------------------
(* The steps of the process.                                                *)

\* main: build the Worker, log in when both credentials are given
Main ==
    /\ pc = "main"
    /\ pc' = IF HasCredentials THEN "docker_login" ELSE "check_image"
    /\ UNCHANGED <<username, password, cwd, fs, output_file, i, calls, cause,
                   json_files, j, merged_data, exc, exit_code, writes>>

\* Worker.docker_login
DockerLogin ==
    /\ pc = "docker_login"
    /\ IF HasCredentials
       THEN \E reason \in CommandReasons :
              LET next == docker_login(SubprocessRun(reason)) IN
              /\ calls' = Append(calls, Call("login", "", reason))
              /\ cause' = reason
              /\ pc' = next.pc
              /\ exc' = next.exc
              /\ exit_code' = next.exit_code
       ELSE /\ pc' = "check_image"
            /\ UNCHANGED <<calls, cause, exc, exit_code>>
    /\ UNCHANGED <<username, password, cwd, fs, output_file, i, json_files, j,
                   merged_data, writes>>

\* run_scanners: self.check_image(details["image"]) of scanner i
CheckImage ==
    /\ pc = "check_image"
    /\ \E reason \in InspectReasons :
         LET next == AfterCheck(check_image(SubprocessRun(reason))) IN
         /\ calls' = Append(calls, Call("inspect", Image(ScannerNames[i]), reason))
         /\ cause' = reason
         /\ pc' = next.pc
         /\ exc' = next.exc
         /\ exit_code' = next.exit_code
    /\ UNCHANGED <<username, password, cwd, fs, output_file, i, json_files, j,
                   merged_data, writes>>

\* run_scanners: self.pull_image(details["image"]) of scanner i
PullImage ==
    /\ pc = "pull_image"
    /\ \E reason \in CommandReasons :
         LET next == AfterPull(pull_image(SubprocessRun(reason))) IN
         /\ calls' = Append(calls, Call("pull", Image(ScannerNames[i]), reason))
         /\ cause' = reason
         /\ pc' = next.pc
         /\ exc' = next.exc
         /\ exit_code' = next.exit_code
    /\ UNCHANGED <<username, password, cwd, fs, output_file, i, json_files, j,
                   merged_data, writes>>

\* run_scanners: the container run of scanner i and the end of its iteration
RunScanner ==
    /\ pc = "run"
    /\ \E reason \in CommandReasons :
         LET result == SubprocessRun(reason)
             name   == ScannerNames[i]
             next   == AfterRun(i, result) IN
         /\ calls' = Append(calls, Call("run", Image(name), reason))
         /\ cause' = reason
         /\ fs' = IF reason = "success"
                  THEN WriteFile(MountedPath(ReportName(name)), Report(i))
                  ELSE fs
         /\ json_files' = Recorded(json_files, name, result)
         /\ i' = IF next.pc = "check_image" THEN i + 1 ELSE i
         /\ j' = IF next.pc = "merge" THEN 1 ELSE j
         /\ pc' = next.pc
         /\ exc' = next.exc
         /\ exit_code' = next.exit_code
    /\ UNCHANGED <<username, password, cwd, output_file, merged_data, writes>>

\* merge_json_files: one iteration of "for json_file in json_files"
MergeRead ==
    /\ pc = "merge"
    /\ j <= Len(json_files)
    /\ LET step == MergeStep(merged_data, ReadFile(OpenPath(json_files[j]))) IN
       IF step.exc = ""
       THEN /\ merged_data' = step.merged
            /\ j' = j + 1
            /\ UNCHANGED <<pc, exc, exit_code>>
       ELSE /\ pc' = "crashed"
            /\ exc' = step.exc
            /\ exit_code' = 1
            /\ UNCHANGED <<merged_data, j>>
    /\ UNCHANGED <<username, password, cwd, fs, output_file, i, calls, cause,
                   json_files, writes>>

\* merge_json_files: open(self.output_file, 'w') and json.dump(merged_data)
MergeWrite ==
    /\ pc = "merge"
    /\ j > Len(json_files)
    /\ output_file' = JsonDump(PyList(merged_data))
    /\ writes' = writes + 1
    /\ pc' = "done"
    /\ exit_code' = 0
    /\ UNCHANGED <<username, password, cwd, fs, i, calls, cause, json_files, j,
                   merged_data, exc>>

----------------------------------------------------------------------------
(* The whole program.                                                       *)

NoFiles == [d \in Dirs |-> [f \in FileNames |-> Missing]]

\* what may already be at the output path
OldOutput == JArray(<<JNumber(0)>>)

Init ==
    /\ username \in {None, <<"">>, <<"user">>}
    /\ password \in {None, <<"">>, <<"secret">>}
    /\ cwd \in Dirs
    /\ fs = NoFiles
    /\ output_file = OldOutput
    /\ pc = "main"
    /\ i = 1
    /\ calls = <<>>
    /\ cause = "none"
    /\ json_files = <<>>
    /\ j = 0
    /\ merged_data = <<>>
    /\ exc = ""
    /\ exit_code = -1
    /\ writes = 0

Next ==
    \/ Main
    \/ DockerLogin
    \/ CheckImage
    \/ PullImage
    \/ RunScanner
    \/ MergeRead
    \/ MergeWrite

Spec == Init /\ [][Next]_vars

\* the same program started without credentials or with a full pair, from
\* inside the input directory
InitScan ==
    /\ Init
    /\ <<username, password>> \in {<<None, None>>, <<<<"user">>, <<"secret">>>>}
    /\ cwd = "input_dir"

SpecScan == InitScan /\ [][Next]_vars

----------------------------------------------------------------------------
(* merge_json_files on its own: called on a list of recorded names, in      *)
(* scanner order, whose files hold any of the documents below.              *)

Findings == {Finding(n) : n \in 1..MaxElems}

SeqsUpTo(S, n) == UNION {[1..m -> S] : m \in 0..n}

ArrayDocs == {JArray(xs) : xs \in SeqsUpTo(Findings, MaxLen)}

ObjectDocs ==
    { JObject(<< << <<"a">>, JNumber(1) >>, << <<"b">>, JNumber(2) >> >>),
      JObject(<< << <<"b">>, JNumber(1) >>, << <<"a">>, JNumber(2) >>,
                 << <<"b">>, JNumber(3) >> >>) }

ScalarDocs == {JNumber(7), JTrue, JNull}

Docs == ArrayDocs \cup ObjectDocs \cup ScalarDocs
          \cup {JString(<<"x", "y">>), Missing, Malformed}

\* the elements of a set of scanner indices, ascending
RECURSIVE Ascending(_)
Ascending(S) ==
    IF S = {} THEN <<>>
    ELSE LET least == CHOOSE x \in S : \A y \in S : x <= y
         IN <<least>> \o Ascending(S \ {least})

NamesOf(S) == [n \in 1..Cardinality(S) |-> OutputName(ScannerNames[Ascending(S)[n]])]

InitMerge ==
    /\ username = None
    /\ password = None
    /\ cwd = "input_dir"
    /\ \E S \in SUBSET (1..NumScanners) :
         /\ Cardinality(S) <= MaxRecorded
         /\ json_files = NamesOf(S)
         /\ \E content \in [S -> Docs] :
              fs = [d \in Dirs |-> [f \in FileNames |->
                      IF d = cwd /\ \E k \in S : f = ReportName(ScannerNames[k])
                      THEN content[CHOOSE k \in S : f = ReportName(ScannerNames[k])]
                      ELSE Missing]]
    /\ output_file \in {Missing, OldOutput}
    /\ pc = "merge"
    /\ i = 1
    /\ calls = <<>>
    /\ cause = "none"
    /\ j = 1
    /\ merged_data = <<>>
    /\ exc = ""
    /\ exit_code = -1
    /\ writes = 0

NextMerge ==
    \/ MergeRead
    \/ MergeWrite

SpecMerge == InitMerge /\ [][NextMerge]_vars

----------------------------------------------------------------------------
(* Vocabulary of the properties.                                            *)

Terminated == pc \in {"done", "exited", "crashed"}

\* merge_json_files has been entered
MergeEntered == j >= 1

Positions(op, k) ==
    {n \in DOMAIN calls : calls[n].op = op /\ calls[n].image = Image(ScannerNames[k])}

\* the call at position n is op on the image of scanner k
IsCall(n, op, k) ==
    n \in DOMAIN calls /\ calls[n].op = op /\ calls[n].image = Image(ScannerNames[k])

ScannerOf(n) == CHOOSE k \in 1..NumScanners : calls[n].image = Image(ScannerNames[k])

LastCall == calls[Len(calls)]

\* the document merge_json_files finds for the n-th recorded name
RecordedDoc(n) == ReadFile(OpenPath(json_files[n]))

----------------------------------------------------------------------------
\* C1: once docker login has exited non-zero the process has ended through
\* sys.exit(1) and nothing else happened: the failed login is the last docker
\* call (no inspect, pull or run after it), merge_json_files was not entered,
\* no filename was recorded and the output file was not written.
C1_LoginFailureStopsRun ==
    \A n \in DOMAIN calls :
        (calls[n].op = "login" /\ calls[n].status = "nonzero") =>
            /\ username = <<"user">> /\ password = <<"secret">>
            /\ n = Len(calls)
            /\ pc = "exited"
            /\ exit_code = 1
            /\ ~MergeEntered
            /\ json_files = <<>>
            /\ writes = 0
            /\ output_file = OldOutput

C1_Witness ==
    /\ pc = "exited"
    /\ calls = <<[op |-> "login", image |-> "", status |-> "nonzero"]>>
    /\ username = <<"user">>
    /\ password = <<"secret">>

----------------------------------------------------------------------------
CredentialsAbsent ==
    \/ username = None
    \/ username = <<"">>
    \/ password = None
    \/ password = <<"">>

\* C2: when username and password are not both given and non-empty, docker
\* login is never called, and the first docker call of the run is the image
\* inspect of semgrep, the first scanner.
C2_NoLoginWithoutCredentials ==
    CredentialsAbsent =>
        /\ \A n \in DOMAIN calls : calls[n].op # "login"
        /\ pc # "docker_login"
        /\ calls # <<>> =>
              /\ calls[1].op = "inspect"
              /\ calls[1].image = "returntocorp/semgrep"

C2_Witness ==
    /\ username = <<"user">>
    /\ password = <<"">>
    /\ pc = "done"
    /\ Len(calls) >= NumScanners

----------------------------------------------------------------------------
\* C3: a scanner's image is pulled exactly once when its inspect exited
\* non-zero and never when the inspect succeeded; the pull comes right after
\* that inspect and right before that scanner's container run, and no image is
\* inspected or pulled twice.
C3_PullExactlyOnMiss ==
    /\ \A n \in DOMAIN calls :
         calls[n].op = "inspect" =>
            /\ calls[n].status = "zero" =>
                  /\ n = Len(calls) => pc = "run"
                  /\ n < Len(calls) => IsCall(n + 1, "run", ScannerOf(n))
            /\ calls[n].status = "nonzero" =>
                  /\ n = Len(calls) => pc = "pull_image"
                  /\ n < Len(calls) => IsCall(n + 1, "pull", ScannerOf(n))
    /\ \A n \in DOMAIN calls :
         calls[n].op = "pull" =>
            /\ IsCall(n - 1, "inspect", ScannerOf(n))
            /\ calls[n - 1].status = "nonzero"
            /\ n < Len(calls) => IsCall(n + 1, "run", ScannerOf(n))
            /\ (n = Len(calls) /\ calls[n].status # "none") => pc = "run"
    /\ \A k \in 1..NumScanners :
         /\ Cardinality(Positions("pull", k)) <= 1
         /\ Cardinality(Positions("inspect", k)) <= 1
         /\ MergeEntered =>
              Cardinality(Positions("pull", k)) =
                 IF \E n \in Positions("inspect", k) : calls[n].status = "nonzero"
                 THEN 1 ELSE 0

C3_Witness ==
    /\ pc = "done"
    /\ Cardinality(Positions("pull", 1)) = 0
    /\ Cardinality(Positions("pull", 2)) = 1
    /\ \E n \in Positions("inspect", 1) : calls[n].status = "zero"
    /\ \E n \in Positions("inspect", 2) : calls[n].status = "nonzero"

----------------------------------------------------------------------------
\* C4: a pull or a container run that exits non-zero does not stop the loop:
\* the failed pull is followed by the run of the same scanner, the failed run
\* by the inspect of the next scanner; the process ends before merge only on
\* a login failure or a missing docker executable; and when merge starts each
\* of the five scanners had exactly one inspect and one run, in declaration
\* order, the last call being the run of the fifth scanner.
C4_FailuresDoNotStopLoop ==
    /\ \A n \in DOMAIN calls :
         (calls[n].op = "pull" /\ calls[n].status = "nonzero") =>
            /\ n = Len(calls) => pc = "run"
            /\ n < Len(calls) => IsCall(n + 1, "run", ScannerOf(n))
    /\ \A n \in DOMAIN calls :
         (calls[n].op = "run" /\ calls[n].status = "nonzero"
              /\ ScannerOf(n) < NumScanners) =>
            /\ n = Len(calls) => (pc = "check_image" /\ i = ScannerOf(n) + 1)
            /\ n < Len(calls) => IsCall(n + 1, "inspect", ScannerOf(n) + 1)
    /\ (Terminated /\ ~MergeEntered) =>
          \/ LastCall.status = "none"
          \/ LastCall.op = "login"
    /\ \A k \in 1..NumScanners : Cardinality(Positions("run", k)) <= 1
    /\ MergeEntered =>
          /\ \A k \in 1..NumScanners :
                /\ Cardinality(Positions("run", k)) = 1
                /\ Cardinality(Positions("inspect", k)) = 1
                /\ \A a \in Positions("inspect", k), b \in Positions("run", k) : a < b
          /\ \A k \in 1..(NumScanners - 1) :
                \A a \in Positions("run", k), b \in Positions("inspect", k + 1) : a < b
          /\ IsCall(Len(calls), "run", NumScanners)

C4_Witness ==
    /\ pc = "done"
    /\ \E n \in Positions("pull", 1) : calls[n].status = "nonzero"
    /\ \E n \in Positions("run", 1) : calls[n].status = "nonzero"
    /\ \E n \in Positions("pull", 3) : calls[n].status = "nonzero"
    /\ \E n \in Positions("run", 3) : calls[n].status = "zero"
    /\ \E n \in Positions("run", 5) : calls[n].status = "nonzero"

----------------------------------------------------------------------------
\* the scanners whose container run exited zero
RunSucceeded ==
    {k \in 1..NumScanners : \E n \in Positions("run", k) : calls[n].status = "zero"}

\* C5: when merge_json_files is entered, the recorded filenames are the
\* report names of exactly the scanners whose container run exited zero, once
\* each, in declaration order, whatever their inspect and pull did.
C5_RecordedOnlyOnSuccess ==
    MergeEntered =>
        json_files = [n \in 1..Cardinality(RunSucceeded) |->
                         ReportName(ScannerNames[Ascending(RunSucceeded)[n]])]

C5_Witness ==
    /\ pc = "merge"
    /\ j = 1
    /\ json_files = <<"horusec_output.json", "gitleaks_output.json">>
    /\ \E n \in Positions("pull", 1) : calls[n].status = "zero"
    /\ \E n \in Positions("run", 1) : calls[n].status = "nonzero"
    /\ \E n \in Positions("pull", 2) : calls[n].status = "nonzero"

----------------------------------------------------------------------------
\* C6: when the file merge_json_files is about to read is missing or is not
\* well-formed JSON, the error escapes (FileNotFoundError or JSONDecodeError),
\* the loop goes no further, and the output file is neither written nor
\* changed, whatever was merged from the files read before; nothing happens
\* after the error.
C6_BadFileAbortsMerge ==
    [][ /\ (pc = "merge" /\ j <= Len(json_files)
               /\ RecordedDoc(j).kind \in {"missing", "malformed"}) =>
            /\ pc' = "crashed"
            /\ exc' = IF RecordedDoc(j).kind = "missing"
                      THEN "FileNotFoundError" ELSE "JSONDecodeError"
            /\ j' = j
            /\ writes' = 0
            /\ output_file' = output_file
        /\ pc = "crashed" => pc' = "crashed" ]_vars

C6_Witness ==
    /\ pc = "crashed"
    /\ exc = "FileNotFoundError"
    /\ j = 2
    /\ Len(json_files) = 2
    /\ merged_data # <<>>
    /\ output_file = OldOutput
    /\ writes = 0

----------------------------------------------------------------------------
AllArrays == \A n \in DOMAIN json_files : RecordedDoc(n).kind = "array"

RECURSIVE ConcatArrays(_)
\* the items of the recorded arrays one after another, from position n on
ConcatArrays(n) ==
    IF n > Len(json_files) THEN <<>> ELSE RecordedDoc(n).val \o ConcatArrays(n + 1)

\* C7: the output file is written at most once and only after every recorded
\* file was read; when every recorded file holds a JSON array the merge ends
\* normally and the file written is the array of all their items, file after
\* file in recorded order, nothing dropped, added or moved; with no recorded
\* file it is the empty array.
C7_OutputIsConcatenation ==
    /\ writes <= 1
    /\ writes = 0 => output_file \in {Missing, OldOutput}
    /\ writes = 1 => (pc = "done" /\ j = Len(json_files) + 1)
    /\ pc = "done" => writes = 1
    /\ AllArrays =>
          /\ Terminated => pc = "done"
          /\ pc = "done" => output_file = JArray(ConcatArrays(1))
    /\ (json_files = <<>> /\ pc = "done") => output_file = JArray(<<>>)

C7_Witness ==
    /\ pc = "done"
    /\ Len(json_files) = 2
    /\ RecordedDoc(1) = JArray(<<Finding(2)>>)
    /\ RecordedDoc(2) = JArray(<<Finding(2)>>)
    /\ output_file = JArray(<<Finding(2), Finding(2)>>)

C7_WitnessEmpty ==
    /\ pc = "done"
    /\ json_files = <<>>
    /\ output_file = JArray(<<>>)

----------------------------------------------------------------------------
\* C8: end to end, when exactly one scanner's container run exited zero and
\* left its report in the mounted input directory, the run completes and the
\* output file holds that report's contents, also when the process was not
\* started from the input directory.
C8_EndToEndOneReport ==
    (Terminated /\ MergeEntered /\ Len(json_files) = 1) =>
        /\ pc = "done"
        /\ output_file = ReadFile(MountedPath(json_files[1]))

----------------------------------------------------------------------------
C9_WitnessNoEngine ==
    /\ pc = "crashed"
    /\ cause = "no_engine"
    /\ LastCall.op = "inspect"

----------------------------------------------------------------------------
RECURSIVE FirstKeys(_, _)
\* the distinct keys of an object's members, in order of first appearance
FirstKeys(members, seen) ==
    IF members = <<>> THEN <<>>
    ELSE IF Head(members)[1] \in seen
         THEN FirstKeys(Tail(members), seen)
         ELSE <<PyStr(Head(members)[1])>>
                 \o FirstKeys(Tail(members), seen \cup {Head(members)[1]})

\* C10: one iteration of the merge loop keeps the file's contents only for a
\* top-level array (its items are appended as they are); for a top-level
\* object it appends the object's keys, in key order, and none of its values;
\* for a number, a boolean or null the extend raises TypeError and the output
\* file is not written.
C10_TopLevelShapes ==
    [][ (pc = "merge" /\ j <= Len(json_files)) =>
          /\ RecordedDoc(j).kind = "array" =>
                /\ pc' = "merge"
                /\ DumpItems(merged_data') = DumpItems(merged_data) \o RecordedDoc(j).val
          /\ RecordedDoc(j).kind = "object" =>
                /\ pc' = "merge"
                /\ merged_data' = merged_data \o FirstKeys(RecordedDoc(j).val, {})
          /\ RecordedDoc(j).kind \in {"number", "true", "null"} =>
                /\ pc' = "crashed"
                /\ exc' = "TypeError"
                /\ writes' = 0
                /\ output_file' = output_file ]_vars

C10_Witness ==
    /\ pc = "done"
    /\ Len(json_files) = 1
    /\ RecordedDoc(1).kind = "object"
    /\ Len(RecordedDoc(1).val) = 3
    /\ output_file = JArray(<<JString(<<"b">>), JString(<<"a">>)>>)

C10_WitnessScalar ==
    /\ pc = "crashed"
    /\ exc = "TypeError"
    /\ j = 2
    /\ RecordedDoc(2) = JNull
    /\ writes = 0

====
